---- MODULE Spec2Model ----
(***************************************************************************)
(* Model of the Wikipedia quiz backend (src/project/main.py): the scraper, *)
(* the template quiz generator, the quizzes table and the three request    *)
(* handlers, run by concurrent workers against one database.               *)
(*                                                                         *)
(* A Python str is a sequence of tokens (characters for page text, whole   *)
(* literals for the fixed template strings); a Python list is a sequence;  *)
(* a Python dict is a function from its keys; a JSON document is a         *)
(* sequence of <<key, value>> members in insertion order.                  *)
(***************************************************************************)
EXTENDS Integers, Sequences, FiniteSets, TLC

\* ------------------------------------------------------------- bounds
MaxRequests == 3
MaxParagraphs == 2

\* ------------------------------------------------- program constants
ContentLimit == 8000
ExcerptLimit == 400

Workers == {1, 2}
URLs == {"u1", "u2"}
GetIds == 1..Cardinality(URLs)

\* ------------------------------------------------------ str helpers
Min(a, b) == IF a <= b THEN a ELSE b

\* s[:n]
Slice(s, n) == SubSeq(s, 1, Min(n, Len(s)))

IsPrefix(a, b) ==
    /\ Len(a) <= Len(b)
    /\ \A i \in 1..Len(a) : a[i] = b[i]

RECURSIVE Join(_, _)
\* sep.join(parts)
Join(sep, parts) ==
    IF Len(parts) = 0 THEN <<>>
    ELSE IF Len(parts) = 1 THEN parts[1]
    ELSE parts[1] \o sep \o Join(sep, Tail(parts))

\* ------------------------------------------------------- exceptions
Exc(type, msg) == [type |-> type, msg |-> msg]
Str(e) == e.msg
NoExc == Exc("none", <<>>)

\* ---------------------------------------------------------- the web
\* What requests.get can meet: a transport failure, or a response with a
\* status code and an HTML document.  A document is the sequence of its h1
\* texts and the sequence of its p elements, each inside or outside
\* div.mw-parser-output.
StatusCodes == {200, 404}
Para(main, text) == [main |-> main, text |-> text]
Doc(h1s, ps) == [h1 |-> h1s, ps |-> ps]

T1 == <<"Alan Turing">>
T2 == <<"Ada Lovelace">>

\* a text of n characters that differ along its length
Text(n, seed) == [i \in 1..n |-> IF (i + seed) % 3 = 0 THEN "a"
                                 ELSE IF (i + seed) % 3 = 1 THEN "b" ELSE "c"]

\* a page without a heading, a page whose only paragraph is outside the main
\* container, and a page with two headings and two paragraphs in it
ShortDocs ==
    {Doc(<<>>, <<Para(TRUE, Text(2, 0))>>),
     Doc(<<T1>>, <<Para(FALSE, Text(1, 1))>>),
     Doc(<<T2, T1>>, <<Para(TRUE, Text(1, 1)), Para(TRUE, Text(2, 0))>>)}

\* the body of an error response
ErrorDoc == Doc(<<>>, <<>>)

\* pages of k one-character paragraphs followed by one of n characters, n around
\* the two limits
LongLens == {1, ExcerptLimit - 2, ExcerptLimit, ExcerptLimit + 1,
             ContentLimit - 2, ContentLimit, ContentLimit + 1}

LongDocs ==
    {Doc(<<T1>>, <<>>)} \cup
    {Doc(<<T1>>, [i \in 1..(k + 1) |-> IF i <= k THEN Para(TRUE, Text(1, i))
                                        ELSE Para(TRUE, Text(n, n))]) :
        k \in 0..(MaxParagraphs - 1), n \in LongLens}

Fetched(docs) ==
    {[kind |-> "transport"]}
        \cup {[kind |-> "response", status |-> c, html |-> ErrorDoc] :
                c \in StatusCodes \ {200}}
        \cup {[kind |-> "response", status |-> 200, html |-> d] : d \in docs}

\* ------------------------------------------------- scrape_wikipedia
\* response.raise_for_status()
RaisesForStatus(status) == status >= 400 /\ status < 600

\* soup.select("div.mw-parser-output > p")
InMain(p) == p.main
SelectParagraphs(html) == SelectSeq(html.ps, InMain)

\* "\n".join([p.get_text() for p in paragraphs])
ExtractedText(html) ==
    LET paragraphs == SelectParagraphs(html)
    IN  Join(<<"\n">>, [i \in 1..Len(paragraphs) |-> paragraphs[i].text])

\* except Exception as e: raise Exception(f"Error scraping Wikipedia: {str(e)}")
ScrapeError(e) == Exc("Exception", <<"Error scraping Wikipedia: ">> \o Str(e))

TruncateContent_None(content) == content

\* content[:8000]
TruncateContent(content) == Slice(content, ContentLimit)

\* scrape_wikipedia(url), given what the GET of url meets
ScrapeWikipedia(got) ==
    IF got.kind = "transport"
    THEN [ok |-> FALSE,
          exc |-> ScrapeError(Exc("ConnectionError", <<"connection failed">>))]
    ELSE IF RaisesForStatus(got.status)
    THEN [ok |-> FALSE,
          exc |-> ScrapeError(Exc("HTTPError", <<"client or server error">>))]
    ELSE IF got.html.h1 = <<>>
    THEN [ok |-> FALSE,
          exc |-> ScrapeError(Exc("AttributeError",
                        <<"'NoneType' object has no attribute 'text'">>))]
    ELSE [ok |-> TRUE,
          title |-> got.html.h1[1],
          content |-> TruncateContent(ExtractedText(got.html))]

\* ---------------------------------------- generate_quiz_with_gemini
Options(a, b, c, d) == [A |-> a, B |-> b, C |-> c, D |-> d]

Question(q, opts, answer, expl, diff) ==
    [question |-> q, options |-> opts, correct_answer |-> answer,
     explanation |-> expl, difficulty |-> diff]

QuizQuestions(title) ==
    << Question(<<"What is ">> \o title \o <<" best known for?">>,
                Options("Science", "Music", "Politics", "Art"), "A",
                title \o <<" is primarily known for contributions in science.">>,
                "easy"),
       Question(<<"Which field did ">> \o title \o <<" contribute to?">>,
                Options("Mathematics", "Cooking", "Fashion", "Sports"), "A",
                title \o <<" made major contributions in mathematics and computing.">>,
                "medium") >>

RelatedTopics == <<"Computer science", "Cryptography", "Artificial intelligence">>

GenerateQuizWithGemini_OneQuestion(title, content) ==
    [quiz_data |-> SubSeq(QuizQuestions(title), 1, 1), related_topics |-> RelatedTopics]

GenerateQuizWithGemini(title, content) ==
    [quiz_data |-> QuizQuestions(title), related_topics |-> RelatedTopics]

\* ------------------------------------------------- the JSON column
OptionKeys == <<"A", "B", "C", "D">>
QuestionKeys == <<"question", "options", "correct_answer", "explanation", "difficulty">>

\* json.dumps: an object is written member by member, in insertion order
DumpOptions(opts) == [i \in 1..Len(OptionKeys) |-> <<OptionKeys[i], opts[OptionKeys[i]]>>]

DumpQuestion(q) ==
    [i \in 1..Len(QuestionKeys) |->
        <<QuestionKeys[i],
          IF QuestionKeys[i] = "options" THEN DumpOptions(q.options)
          ELSE q[QuestionKeys[i]]>>]

\* the stored form of {"questions": quiz_data, "related_topics": related_topics}
JsonDumps(quiz_data, related_topics) ==
    << <<"questions", [i \in 1..Len(quiz_data) |-> DumpQuestion(quiz_data[i])]>>,
       <<"related_topics", related_topics>> >>

\* json.loads of an object: the dict of its members, a later member of a key
\* replacing an earlier one
MemberKeys(members) == {members[i][1] : i \in 1..Len(members)}

LastIndex(members, k) ==
    CHOOSE i \in 1..Len(members) :
        /\ members[i][1] = k
        /\ \A j \in (i + 1)..Len(members) : members[j][1] # k

LoadObject(members) == [k \in MemberKeys(members) |-> members[LastIndex(members, k)][2]]

LoadQuestion(members) ==
    LET d == LoadObject(members)
    IN  [k \in DOMAIN d |-> IF k = "options" THEN LoadObject(d[k]) ELSE d[k]]

JsonLoads(members) ==
    LET d == LoadObject(members)
    IN  [k \in DOMAIN d |->
            IF k = "questions" THEN [i \in 1..Len(d[k]) |-> LoadQuestion(d[k][i])]
            ELSE d[k]]

\* d.get(k, default)
DictGet(d, k, default) == IF k \in DOMAIN d THEN d[k] ELSE default

\* ------------------------------------------------ the quizzes table
UrlStored_NoConstraint(rows, url) == FALSE

UrlStored_LastOnly(rows, url) == rows # <<>> /\ rows[Len(rows)].url = url

\* Column(String, unique=True): the unique index on url
UrlStored(rows, url) == \E i \in 1..Len(rows) : rows[i].url = url

\* Column(Integer, primary_key=True): the next rowid
NextId(rows) ==
    IF rows = <<>> THEN 1
    ELSE 1 + (CHOOSE m \in {rows[i].id : i \in 1..Len(rows)} :
                \A i \in 1..Len(rows) : rows[i].id <= m)

\* Quiz(url=..., title=..., content_excerpt=content[:400], quiz_data={...})
NewQuiz(url, title, content, g) ==
    [url |-> url, title |-> title,
     content_excerpt |-> Slice(content, ExcerptLimit),
     quiz_data |-> JsonDumps(g.quiz_data, g.related_topics)]

\* the INSERT of db.commit(): id and created_at are assigned by the database
InsertQuiz(rows, entry, t) ==
    Append(rows, [id |-> NextId(rows), url |-> entry.url, title |-> entry.title,
                  content_excerpt |-> entry.content_excerpt,
                  quiz_data |-> entry.quiz_data, created_at |-> t])

\* server_default=func.now(): the clock readings an INSERT into rows can get, the
\* time of the last INSERT or a later one
Now(rows) ==
    LET last == IF rows = <<>> THEN 0 ELSE rows[Len(rows)].created_at
    IN  {last, last + 1}

\* a SELECT loads a row as a Quiz object: the JSON column is deserialized
LoadQuiz(row) == [row EXCEPT !.quiz_data = JsonLoads(@)]

Bijections(n) ==
    {f \in [1..n -> 1..n] : \A i, j \in 1..n : i # j => f[i] # f[j]}

OrderByCreatedAt_Asc(rows) ==
    {s \in {[i \in 1..Len(rows) |-> rows[f[i]]] : f \in Bijections(Len(rows))} :
        \A i, j \in 1..Len(s) : i < j => s[i].created_at <= s[j].created_at}

\* .order_by(Quiz.created_at.desc()).all(): every order of the rows the database
\* may return, rows of equal created_at in either order
OrderByCreatedAtDesc(rows) ==
    {s \in {[i \in 1..Len(rows) |-> rows[f[i]]] : f \in Bijections(Len(rows))} :
        \A i, j \in 1..Len(s) : i < j => s[i].created_at >= s[j].created_at}

\* .filter(Quiz.id == quiz_id).first(): the row in a sequence of at most one
FilterById(rows, id) == SelectSeq(rows, LAMBDA r : r.id = id)

\* --------------------------------------------------------- responses
NoResp == [status |-> 0]

GenerateFailure_Conflict(e) ==
    [status |-> IF e.type = "IntegrityError" THEN 409 ELSE 500, detail |-> Str(e)]

\* except Exception as e: raise HTTPException(status_code=500, detail=str(e))
GenerateFailure(e) == [status |-> 500, detail |-> Str(e)]

\* the return of generate_quiz
GenerateResponse(quiz_entry, quiz_data, related_topics) ==
    [status |-> 200,
     body |-> [id |-> quiz_entry.id, url |-> quiz_entry.url, title |-> quiz_entry.title,
               quiz_data |-> quiz_data, related_topics |-> related_topics]]

\* the return of list_quizzes
ListResponse(quizzes) ==
    [status |-> 200,
     items |-> [i \in 1..Len(quizzes) |->
                  [id |-> quizzes[i].id, title |-> quizzes[i].title,
                   url |-> quizzes[i].url, created_at |-> quizzes[i].created_at]]]

GetResponse_WrongKey(quiz) ==
    IF quiz = <<>>
    THEN [status |-> 404, detail |-> <<"Quiz not found">>]
    ELSE [status |-> 200,
          body |-> [id |-> quiz[1].id, url |-> quiz[1].url, title |-> quiz[1].title,
                    quiz_data |-> DictGet(quiz[1].quiz_data, "quiz_data", <<>>),
                    related_topics |-> DictGet(quiz[1].quiz_data, "related_topics", <<>>)]]

\* get_quiz after the query: quiz is <<>> (None) or <<the Quiz object>>
GetResponse(quiz) ==
    IF quiz = <<>>
    THEN [status |-> 404, detail |-> <<"Quiz not found">>]
    ELSE [status |-> 200,
          body |-> [id |-> quiz[1].id, url |-> quiz[1].url, title |-> quiz[1].title,
                    quiz_data |-> DictGet(quiz[1].quiz_data, "questions", <<>>),
                    related_topics |-> DictGet(quiz[1].quiz_data, "related_topics", <<>>)]]

\* an exception that leaves list_quizzes or get_quiz: the framework answers 500
Unhandled == [status |-> 500, detail |-> <<"Internal Server Error">>]

\* a storage call that fails for a reason of the database (locked, unreachable)
OperationalError == Exc("OperationalError", <<"database is locked">>)
IntegrityError == Exc("IntegrityError", <<"UNIQUE constraint failed: quizzes.url">>)

\* ------------------------------------------------------------- state
VARIABLES
    web,        \* the documents the site serves
    db,         \* the committed rows of quizzes, in commit order
    nreq,       \* requests started so far
    generated,  \* the bodies of the success responses of POST /generate sent so far
    pc,         \* where each worker is in its handler
    req,        \* the request each worker serves
    session,    \* each worker's SessionLocal(): "none", "open" or "closed"
    loc,        \* the handler's local variables
    resp,       \* the response of the request
    hist        \* what the request met: the fetch, the exception raised, the store
                \* and the success responses as they were when it started

vars == <<web, db, nreq, generated, pc, req, session, loc, resp, hist>>

NoReq == [kind |-> "none", url |-> "", id |-> 0]
NoLoc == [title |-> <<>>, content |-> <<>>, quiz_data |-> <<>>, related_topics |-> <<>>,
          id |-> 0]
NoHist == [got |-> [kind |-> "none"], raised |-> NoExc, storedAtStart |-> FALSE,
           storedAtCommit |-> FALSE, seen |-> {}]

\* the state shared by every start: an empty table, idle workers
InitServer ==
    /\ db = <<>>
    /\ nreq = 0
    /\ generated = {}
    /\ pc = [p \in Workers |-> "idle"]
    /\ req = [p \in Workers |-> NoReq]
    /\ session = [p \in Workers |-> "none"]
    /\ loc = [p \in Workers |-> NoLoc]
    /\ resp = [p \in Workers |-> NoResp]
    /\ hist = [p \in Workers |-> NoHist]

Init ==
    /\ web = ShortDocs
    /\ InitServer

\* a site that serves one page, of any of the lengths around the two limits
InitLong ==
    /\ web \in {{d} : d \in LongDocs}
    /\ InitServer

GeneratedIds == {b.id : b \in generated}

\* a worker takes the next request r: db = SessionLocal()
Begin(p, r) ==
    /\ pc[p] \in {"idle", "done"}
    /\ nreq < MaxRequests
    /\ nreq' = nreq + 1
    /\ req' = [req EXCEPT ![p] = r]

\* what a request records when it starts
StartHist(r) == [NoHist EXCEPT !.storedAtStart = (\E i \in 1..Len(db) : db[i].url = r.url),
                               !.seen = GeneratedIds]

\* generate_quiz from an exception e to its end: the except clause answers, the
\* finally clause closes the session
ExceptFinally(p, e) ==
    /\ resp' = [resp EXCEPT ![p] = GenerateFailure(e)]
    /\ session' = [session EXCEPT ![p] = "closed"]
    /\ pc' = [pc EXCEPT ![p] = "done"]
    /\ loc' = [loc EXCEPT ![p] = NoLoc]

\* ------------------------------------------------- POST /generate
\* db = SessionLocal(); title, content = scrape_wikipedia(data.url), the page
\* being one the site serves
StartGenerate(p, u) ==
    LET r == [kind |-> "generate", url |-> u, id |-> 0]
    IN  /\ Begin(p, r)
        /\ \E got \in Fetched(web) :
            LET s == ScrapeWikipedia(got)
            IN  IF s.ok
                THEN /\ loc' = [loc EXCEPT ![p] =
                            [NoLoc EXCEPT !.title = s.title, !.content = s.content]]
                     /\ hist' = [hist EXCEPT ![p] = [StartHist(r) EXCEPT !.got = got]]
                     /\ pc' = [pc EXCEPT ![p] = "commit"]
                     /\ session' = [session EXCEPT ![p] = "open"]
                     /\ resp' = [resp EXCEPT ![p] = NoResp]
                ELSE /\ ExceptFinally(p, s.exc)
                     /\ hist' = [hist EXCEPT ![p] =
                            [StartHist(r) EXCEPT !.got = got, !.raised = s.exc]]
        /\ UNCHANGED <<web, db, generated>>

\* generate_quiz_with_gemini, Quiz(...), db.add, db.commit
Commit(p) ==
    /\ pc[p] = "commit"
    /\ LET g == GenerateQuizWithGemini(loc[p].title, loc[p].content)
           entry == NewQuiz(req[p].url, loc[p].title, loc[p].content, g)
       IN  IF UrlStored(db, entry.url)
           THEN /\ ExceptFinally(p, IntegrityError)
                /\ hist' = [hist EXCEPT ![p].raised = IntegrityError,
                                        ![p].storedAtCommit = TRUE]
                /\ UNCHANGED db
           ELSE /\ \E t \in Now(db) : db' = InsertQuiz(db, entry, t)
                /\ loc' = [loc EXCEPT ![p].quiz_data = g.quiz_data,
                                      ![p].related_topics = g.related_topics,
                                      ![p].id = NextId(db)]
                /\ pc' = [pc EXCEPT ![p] = "refresh"]
                /\ UNCHANGED <<resp, hist, session>>
    /\ UNCHANGED <<web, nreq, generated, req>>

\* db.commit() raises for a reason of the database: nothing is stored
CommitRaises(p) ==
    /\ pc[p] = "commit"
    /\ ExceptFinally(p, OperationalError)
    /\ hist' = [hist EXCEPT ![p].raised = OperationalError]
    /\ UNCHANGED <<web, db, nreq, generated, req>>

\* db.refresh(quiz_entry), the return, and db.close() in the finally clause
Refresh(p) ==
    /\ pc[p] = "refresh"
    /\ LET quiz_entry == FilterById(db, loc[p].id)[1]
           r == GenerateResponse(quiz_entry, loc[p].quiz_data, loc[p].related_topics)
       IN  /\ resp' = [resp EXCEPT ![p] = r]
           /\ generated' = generated \cup {r.body}
    /\ session' = [session EXCEPT ![p] = "closed"]
    /\ pc' = [pc EXCEPT ![p] = "done"]
    /\ loc' = [loc EXCEPT ![p] = NoLoc]
    /\ UNCHANGED <<web, db, nreq, req, hist>>

\* db.refresh(quiz_entry) raises for a reason of the database, after the commit
RefreshRaises(p) ==
    /\ pc[p] = "refresh"
    /\ ExceptFinally(p, OperationalError)
    /\ hist' = [hist EXCEPT ![p].raised = OperationalError]
    /\ UNCHANGED <<web, db, nreq, generated, req>>

\* --------------------------------------------------- GET /quizzes
\* db = SessionLocal(); the query; db.close(); the return
ListQuizzes(p) ==
    LET r == [kind |-> "list", url |-> "", id |-> 0]
    IN  /\ Begin(p, r)
        /\ \E s \in OrderByCreatedAtDesc(db) :
            LET quizzes == [i \in 1..Len(s) |-> LoadQuiz(s[i])]
            IN  resp' = [resp EXCEPT ![p] = ListResponse(quizzes)]
        /\ session' = [session EXCEPT ![p] = "closed"]
        /\ pc' = [pc EXCEPT ![p] = "done"]
        /\ hist' = [hist EXCEPT ![p] = StartHist(r)]
        /\ UNCHANGED <<web, db, generated, loc>>

\* ---------------------------------------------- GET /quizzes/{id}
\* db = SessionLocal(); the query; db.close(); the not-found test; the return
GetQuiz(p, id) ==
    LET r == [kind |-> "get", url |-> "", id |-> id]
    IN  /\ Begin(p, r)
        /\ LET found == FilterById(db, id)
               quiz == [i \in 1..Len(found) |-> LoadQuiz(found[i])]
           IN  resp' = [resp EXCEPT ![p] = GetResponse(quiz)]
        /\ session' = [session EXCEPT ![p] = "closed"]
        /\ pc' = [pc EXCEPT ![p] = "done"]
        /\ hist' = [hist EXCEPT ![p] = StartHist(r)]
        /\ UNCHANGED <<web, db, generated, loc>>

\* list_quizzes or get_quiz when the query raises for a reason of the database:
\* the exception leaves the handler before db.close(), the framework answers
QueryRaises(p, r) ==
    /\ Begin(p, r)
    /\ resp' = [resp EXCEPT ![p] = Unhandled]
    /\ session' = [session EXCEPT ![p] = "open"]
    /\ pc' = [pc EXCEPT ![p] = "done"]
    /\ hist' = [hist EXCEPT ![p] = [StartHist(r) EXCEPT !.raised = OperationalError]]
    /\ UNCHANGED <<web, db, generated, loc>>

ListQuizzesRaises(p) == QueryRaises(p, [kind |-> "list", url |-> "", id |-> 0])

GetQuizRaises(p, id) == QueryRaises(p, [kind |-> "get", url |-> "", id |-> id])

\* -------------------------------------------------- specifications
\* the handlers against a database that raises only on the unique constraint
Next ==
    \/ \E p \in Workers, u \in URLs : StartGenerate(p, u)
    \/ \E p \in Workers : Commit(p)
    \/ \E p \in Workers : Refresh(p)
    \/ \E p \in Workers : ListQuizzes(p)
    \/ \E p \in Workers, id \in GetIds : GetQuiz(p, id)

Spec == Init /\ [][Next]_vars

\* the same handlers against a database whose calls may also raise
NextFault ==
    \/ Next
    \/ \E p \in Workers : CommitRaises(p)
    \/ \E p \in Workers : RefreshRaises(p)
    \/ \E p \in Workers : ListQuizzesRaises(p)
    \/ \E p \in Workers, id \in GetIds : GetQuizRaises(p, id)

SpecFault == Init /\ [][NextFault]_vars

\* one worker creating quizzes from pages of every length around the two limits
NextLong ==
    \/ \E u \in URLs : StartGenerate(1, u)
    \/ Commit(1)
    \/ Refresh(1)

SpecLong == InitLong /\ [][NextLong]_vars

\* ------------------------------------------------------- properties
Done(p, kind) == pc[p] = "done" /\ req[p].kind = kind

\* the fetch got a 2xx page with a heading and at least one paragraph
GoodPage(got) ==
    /\ got.kind = "response"
    /\ got.status \in 200..299
    /\ got.html.h1 # <<>>
    /\ got.html.ps # <<>>

ItemUrls(r) == {r.items[i].url : i \in 1..Len(r.items)}

\* the place of the row with this id in commit order
CommitIndex(id) == CHOOSE k \in 1..Len(db) : db[k].id = id

\* C1: a POST /generate that fetched a good page and whose URL was not stored when
\* its insert ran answers 200 with that URL, exactly 2 questions and exactly 3
\* related topics; and every GET /quizzes that runs after a success response was
\* sent lists the URL of that response.
C1_GenerateThenListed ==
    /\ \A p \in Workers :
        (Done(p, "generate") /\ GoodPage(hist[p].got) /\ ~hist[p].storedAtCommit) =>
            /\ resp[p].status = 200
            /\ resp[p].body.url = req[p].url
            /\ Len(resp[p].body.quiz_data) = 2
            /\ Len(resp[p].body.related_topics) = 3
    /\ \A p \in Workers :
        Done(p, "list") =>
            /\ resp[p].status = 200
            /\ \A b \in generated : b.id \in hist[p].seen => b.url \in ItemUrls(resp[p])

C1_Witness ==
    \E p, q \in Workers :
        /\ Done(p, "generate") /\ GoodPage(hist[p].got) /\ resp[p].status = 200
        /\ Done(q, "list") /\ resp[p].body.id \in hist[q].seen
        /\ req[p].url \in ItemUrls(resp[q])

\* C2: no two stored quizzes have the same url, and a POST /generate for a URL
\* that was stored when the request started answers 500.
C2_UrlUnique ==
    /\ \A i, j \in 1..Len(db) : i # j => db[i].url # db[j].url
    /\ \A p \in Workers :
        (Done(p, "generate") /\ hist[p].storedAtStart) => resp[p].status = 500

C2_Witness ==
    \E p \in Workers :
        /\ Done(p, "generate") /\ hist[p].storedAtStart
        /\ hist[p].raised = IntegrityError
        /\ resp[p].status = 500
        /\ Cardinality({i \in 1..Len(db) : db[i].url = req[p].url}) = 1

\* C3: a GET /quizzes/{id} for an id that a success response of POST /generate
\* had carried when the GET started answers 200 with the body of that response:
\* the same id, url and title, the same questions in the same order with the
\* same fields, the same related topics.
C3_GetMatchesGenerate ==
    \A p \in Workers :
        (Done(p, "get") /\ req[p].id \in hist[p].seen) =>
            /\ resp[p].status = 200
            /\ \A b \in generated : b.id = req[p].id =>
                /\ resp[p].body.id = b.id
                /\ resp[p].body.url = b.url
                /\ resp[p].body.title = b.title
                /\ resp[p].body.quiz_data = b.quiz_data
                /\ resp[p].body.related_topics = b.related_topics

C3_Witness ==
    \E p \in Workers :
        /\ Done(p, "get") /\ req[p].id \in hist[p].seen
        /\ resp[p].status = 200
        /\ Len(resp[p].body.quiz_data) = 2
        /\ resp[p].body \in generated

\* C4: a GET /quizzes/{id} whose query ran, for an id that no success response
\* of POST /generate carries (nor will: no POST /generate that inserted the id
\* is still running), answers 404 "Quiz not found".
C4_UnknownIdNotFound ==
    \A p \in Workers :
        ( /\ Done(p, "get")
          /\ hist[p].raised = NoExc
          /\ req[p].id \notin GeneratedIds
          /\ ~ \E q \in Workers : pc[q] = "refresh" /\ loc[q].id = req[p].id ) =>
            resp[p] = [status |-> 404, detail |-> <<"Quiz not found">>]

\* C5 as claimed: in every list GET /quizzes returns, a quiz committed later
\* stands before a quiz committed earlier, equal created_at or not.
C5_NewestCommitFirst ==
    \A p \in Workers :
        Done(p, "list") =>
            \A a, b \in 1..Len(resp[p].items) :
                a < b => CommitIndex(resp[p].items[a].id) > CommitIndex(resp[p].items[b].id)

\* C5 amended: the list GET /quizzes returns is in non-increasing created_at
\* order, so of two quizzes with different created_at the one committed later
\* stands first; quizzes of equal created_at stand in either order.
C5_NewestTimestampFirst ==
    \A p \in Workers :
        Done(p, "list") =>
            \A a, b \in 1..Len(resp[p].items) :
                a < b =>
                    /\ resp[p].items[a].created_at >= resp[p].items[b].created_at
                    /\ resp[p].items[a].created_at # resp[p].items[b].created_at =>
                        CommitIndex(resp[p].items[a].id) > CommitIndex(resp[p].items[b].id)

C5_Witness ==
    \E p \in Workers :
        /\ Done(p, "list")
        /\ Len(resp[p].items) = 2
        /\ resp[p].items[1].created_at > resp[p].items[2].created_at
        /\ resp[p].items[1].id > resp[p].items[2].id

\* the failures of the chain, by what the request met
ScrapeFailed(p) ==
    \/ hist[p].got.kind = "transport"
    \/ hist[p].got.kind = "response" /\ hist[p].got.status \notin 200..299
    \/ hist[p].got.kind = "response" /\ hist[p].got.html.h1 = <<>>

StoreFailed(p) == hist[p].storedAtCommit \/ hist[p].raised = OperationalError

C7_Truncation ==
    /\ \A p \in Workers :
        pc[p] \in {"commit", "refresh"} =>
            LET text == ExtractedText(hist[p].got.html)
            IN  /\ Len(loc[p].content) <= ContentLimit
                /\ Len(loc[p].content) = Min(Len(text), ContentLimit)
                /\ IsPrefix(loc[p].content, text)
    /\ \A p \in Workers :
        pc[p] = "refresh" =>
            LET excerpt == db[CommitIndex(loc[p].id)].content_excerpt
            IN  /\ Len(excerpt) = Min(Len(loc[p].content), ExcerptLimit)
                /\ IsPrefix(excerpt, loc[p].content)
    /\ \A i \in 1..Len(db) : Len(db[i].content_excerpt) <= ExcerptLimit

C7_Witness ==
    \E p \in Workers :
        /\ pc[p] = "refresh"
        /\ Len(ExtractedText(hist[p].got.html)) > ContentLimit
        /\ Len(loc[p].content) = ContentLimit
        /\ Len(db[CommitIndex(loc[p].id)].content_excerpt) = ExcerptLimit

\* C8: no request ends with the session it opened still open.
C8_SessionClosed ==
    \A p \in Workers : pc[p] = "done" => session[p] = "closed"

\* at most one success response and at most one stored quiz per URL, and a
\* request whose insert met the URL already stored has answered 500
C9_AtMostOne ==
    /\ \A b, c \in generated : b.url = c.url => b = c
    /\ \A u \in URLs : Cardinality({i \in 1..Len(db) : db[i].url = u}) <= 1
    /\ \A p \in Workers :
        (Done(p, "generate") /\ hist[p].storedAtCommit) => resp[p].status = 500

\* the step of db.commit() that meets the URL already stored answers 500 and
\* leaves the table as it was
C9_LoserLeavesNoRecord ==
    \A p \in Workers :
        (pc[p] = "commit" /\ (\E i \in 1..Len(db) : db[i].url = req[p].url)
            /\ pc'[p] # "commit") =>
            /\ db' = db
            /\ resp'[p].status = 500

\* C9: of the POST /generate requests for one URL, under every interleaving, at
\* most one answers with success and at most one quiz with that URL is stored;
\* the request whose insert meets the URL already stored answers 500 and leaves
\* no record.
C9_Race == []C9_AtMostOne /\ [][C9_LoserLeavesNoRecord]_vars

C9_Witness ==
    \E p, q \in Workers :
        /\ Done(p, "generate") /\ Done(q, "generate")
        /\ req[p].url = req[q].url
        /\ ~hist[p].storedAtStart /\ ~hist[q].storedAtStart
        /\ resp[p].status = 200
        /\ resp[q].status = 500 /\ hist[q].storedAtCommit
        /\ Cardinality({i \in 1..Len(db) : db[i].url = req[p].url}) = 1

\* C10: when no POST /generate is between its commit and its response, the
\* stored quizzes are as many as the success responses of POST /generate, and
\* each carries the id, url and title of one of them.
C10_StoreMatchesSuccesses ==
    (\A p \in Workers : pc[p] # "refresh") =>
        /\ Len(db) = Cardinality(generated)
        /\ \A i \in 1..Len(db) :
            \E b \in generated :
                b.id = db[i].id /\ b.url = db[i].url /\ b.title = db[i].title

====
